---- MODULE Spec2Model ----
(***************************************************************************)
(* Model of app/routers/solution.py: the /solutions router.                *)
(*                                                                         *)
(*   generate_text           retrieval-augmented generation, one process   *)
(*                           per request, one action per statement group   *)
(*   create_solution, update_solution, update_solution_config,             *)
(*   read_solution, read_solutions      one action per handler             *)
(*                                                                         *)
(* Strings are sequences of one-character strings.  A prompt template is   *)
(* the sequence of its lexical tokens: a literal character, or a           *)
(* replacement field "{context}", "{question}", "{name}".                  *)
(***************************************************************************)
EXTENDS Integers, Sequences, FiniteSets, TLC

VARIABLES
    solutions,      \* committed rows of the solution table
    configs,        \* committed rows of the solution_config table
    nextSolutionId, \* next primary key of the solution table
    nextConfigId,   \* next primary key of the solution_config table
    crud,           \* the last CRUD handler that ran: its name, arguments, outcome
    registry,       \* settings.LOADED_LLM: a dict model_id -> {model, tokenizer}
    nextHandle,     \* the handle the next load hands out
    lists,          \* the caller-owned message lists, by object identity
    frame,          \* generate_text: each request's arguments and locals
    trace           \* generate_text: what each request did, in order

vars == <<solutions, configs, nextSolutionId, nextConfigId, crud,
          registry, nextHandle, lists, frame, trace>>

crudVars == <<solutions, configs, nextSolutionId, nextConfigId, crud>>
genVars  == <<registry, nextHandle, lists, frame, trace>>

-----------------------------------------------------------------------------
(* Bounds *)

MaxLoads    == 2    \* loads the external loader performs
MaxRows     == 1    \* rows create_solution may add to each table

(* Program constants *)

DefaultPromptId == 1
DefaultModelId  == 6
DenseWeight     == 6      \* 0.6, in tenths
SparseWeight    == 4      \* 0.4, in tenths
MaxLength       == 4048
ModelNotLoadedStatus == 400
DefaultSkip     == 0
DefaultLimit    == 10

-----------------------------------------------------------------------------
(* Data the handlers read *)

NL == "\n"

\* Two clients, each making one generate_text request.
Requests  == {1, 2}
\* The model ids a request may name; the loader only ever loads the first.
ModelIds  == {DefaultModelId, DefaultModelId + 1}
Loadable  == {DefaultModelId}
PromptIds == {DefaultPromptId, DefaultPromptId + 1, DefaultPromptId + 2}
ListIds   == {1, 2, 3}

\* The prompt table (read-only here).  Prompt 1 is the template
\* "C{context}\nQ{question}"; prompt 2 names a field the handler does not supply;
\* there is no prompt 3.
Prompts ==
    { [id |-> DefaultPromptId,
       content |-> <<"C", "{context}", NL, "Q", "{question}">>],
      [id |-> DefaultPromptId + 1,
       content |-> <<"{name}", "{question}">>] }

\* The knowledge table (read-only here).
Knowledges ==
    { [id |-> 1, search_type |-> [id |-> 1], top_k |-> 2, score |-> 5],
      [id |-> 2, search_type |-> [id |-> 2], top_k |-> 1, score |-> 5] }

\* The chunks the retrieval backend holds for knowledge 1.
Corpus == { <<"S">>, <<"K", NL>> }

\* What the text-generation pipeline may answer.
Replies == { <<"A">> }

\* The message list of the signature's default: an assistant turn, then the
\* user's question.
DefaultMessages ==
    << [role |-> "assistant", content |-> <<"Y">>],
       [role |-> "user", content |-> <<"W">>] >>

\* The message lists callers hold: list 1 is the default, list 2 is a single
\* user turn, list 3 is empty.
InitialLists ==
    [l \in ListIds |->
        IF l = 1 THEN DefaultMessages
        ELSE IF l = 2 THEN << [role |-> "user", content |-> <<"V">>] >>
        ELSE <<>>]

-----------------------------------------------------------------------------
(* Pure helpers *)

Last(s) == s[Len(s)]

\* All sequences over S of length at most n.
SeqsUpTo(S, n) == UNION { [1 .. k -> S] : k \in 0 .. n }

\* dict.get(key, default) on a dict modelled as a function.
DictGet(d, key, default) == IF key \in DOMAIN d THEN d[key] ELSE default

\* {} : the dict without "model" and "tokenizer"; .get() on it gives None (0).
EmptyDict == [model |-> 0, tokenizer |-> 0]

\* Faulty variant: the entry is never tested.
TruthyUnchecked(d) == TRUE

\* Python truthiness of a registry entry: only the empty dict is falsy.
Truthy(d) == d # EmptyDict

RECURSIVE NewlineJoin(_)
RECURSIVE NewlineJoinNoSeparator(_)

\* Faulty variant: "".join(...), the texts run together.
NewlineJoinNoSeparator(contexts) ==
    IF contexts = <<>> THEN <<>>
    ELSE contexts[1].text \o NewlineJoinNoSeparator(Tail(contexts))

\* "\n".join(item.get("text") for item in contexts)
NewlineJoin(contexts) ==
    IF contexts = <<>> THEN <<>>
    ELSE IF Len(contexts) = 1 THEN contexts[1].text
    ELSE contexts[1].text \o <<NL>> \o NewlineJoin(Tail(contexts))

\* The replacement fields str.format knows how to fill, given the keyword
\* arguments context= and question=.
FieldTokens == {"{context}", "{question}", "{name}"}
Supplied    == {"{context}", "{question}"}

\* prompt.format(...) raises KeyError on a field that is not supplied.
FormatRaises(template) ==
    \E i \in DOMAIN template :
        template[i] \in FieldTokens /\ template[i] \notin Supplied

\* prompt.format(context=context, question=question): literal text is copied,
\* each field is replaced by its argument; the arguments are not scanned again.
RECURSIVE Format(_, _, _)
Format(template, context, question) ==
    IF template = <<>> THEN <<>>
    ELSE LET tok  == Head(template)
             rest == Format(Tail(template), context, question)
         IN  IF tok = "{context}" THEN context \o rest
             ELSE IF tok = "{question}" THEN question \o rest
             ELSE <<tok>> \o rest

\* Faulty variant: messages.append({"role": "user", "content": content}).
SetLastContentAppends(messages, content) ==
    Append(messages, [role |-> "user", content |-> content])

\* Faulty variant: the rendered turn is written to a copy of the list.
SetLastContentOnCopy(messages, content) == messages

\* messages[-1]["content"] = content : the list object is changed in place.
SetLastContent(messages, content) ==
    [messages EXCEPT ![Len(messages)] = [@ EXCEPT !.content = content]]

-----------------------------------------------------------------------------
(* generate_text: POST /solutions/{solution_id}/generates/text *)

NoMessage  == [role |-> "", content |-> <<>>]
NoResponse == [message |-> NoMessage, context |-> <<>>]
NoKnowledge == [id |-> 0, search_type |-> [id |-> 0], top_k |-> 0, score |-> 0]

\* A request that has not been made.
IdleFrame ==
    [ pc |-> "idle",
      solution_id |-> 0, prompt_id |-> 0, model_id |-> 0, messages |-> 0,
      knowledge |-> NoKnowledge, prompt |-> <<>>, question |-> <<>>,
      contexts |-> <<>>, context |-> <<>>, content |-> <<>>,
      loaded_pipeline |-> EmptyDict, result |-> NoMessage,
      raised |-> "", status |-> 0, response |-> NoResponse ]

\* What a request did: the list as the caller passed it, and the calls the
\* request made to its collaborators, in order.
IdleTrace == [given |-> <<>>, calls |-> <<>>]

InFlight(r) == frame[r].pc \notin {"idle", "done"}

Did(r, step, arg) ==
    [trace EXCEPT ![r].calls = Append(@, [step |-> step, arg |-> arg])]

\* Faulty variant: the error is noted and the handler carries on.
RaiseAndCarryOn(r, exc, status) ==
    [frame EXCEPT ![r].raised = exc, ![r].status = status]

\* An exception leaves the handler: the request is over, with this status.
Raise(r, exc, status) ==
    [frame EXCEPT ![r].pc = "done", ![r].raised = exc, ![r].status = status]

\* The client sends the request; requests are numbered in the order they are
\* made.  A caller passes a list object to one call at a time.
Call(r, solution_id, prompt_id, model_id, l) ==
    /\ frame[r].pc = "idle"
    /\ \A q \in Requests : q < r => frame[q].pc # "idle"
    /\ \A q \in Requests : InFlight(q) => frame[q].messages # l
    /\ frame' = [frame EXCEPT ![r].pc = "get_solution",
                              ![r].solution_id = solution_id,
                              ![r].prompt_id = prompt_id,
                              ![r].model_id = model_id,
                              ![r].messages = l]
    /\ trace' = [trace EXCEPT ![r].given = lists[l]]
    /\ UNCHANGED <<registry, nextHandle, lists, crudVars>>

\* solution_obj = SolutionService().get(db, solution_id)
\* solution_config = solution_obj.solution_config
\* solution_knowledge = solution_obj.knowledge
GetSolution(r) ==
    /\ frame[r].pc = "get_solution"
    /\ LET found == {s \in solutions : s.id = frame[r].solution_id}
       IN  IF found = {}
           THEN frame' = Raise(r, "NotFound", 404)
           ELSE LET solution_obj == CHOOSE s \in found : TRUE
                    knowledge == CHOOSE k \in Knowledges :
                                     k.id = solution_obj.knowledge_id
                IN  frame' = [frame EXCEPT ![r].pc = "get_prompt",
                                           ![r].knowledge = knowledge]
    /\ trace' = Did(r, "solution", frame[r].solution_id)
    /\ UNCHANGED <<registry, nextHandle, lists, crudVars>>

\* prompt = PromptService().get(db, prompt_id).content
GetPrompt(r) ==
    /\ frame[r].pc = "get_prompt"
    /\ LET found == {p \in Prompts : p.id = frame[r].prompt_id}
       IN  IF found = {}
           THEN frame' = Raise(r, "NotFound", 404)
           ELSE frame' = [frame EXCEPT
                            ![r].pc = "question",
                            ![r].prompt = (CHOOSE p \in found : TRUE).content]
    /\ trace' = Did(r, "prompt", frame[r].prompt_id)
    /\ UNCHANGED <<registry, nextHandle, lists, crudVars>>

\* question = messages[-1].get("content")
GetQuestion(r) ==
    /\ frame[r].pc = "question"
    /\ LET messages == lists[frame[r].messages]
       IN  IF messages = <<>>
           THEN frame' = Raise(r, "IndexError", 500)
           ELSE frame' = [frame EXCEPT ![r].pc = "retrieve",
                                       ![r].question = Last(messages).content]
    /\ UNCHANGED <<registry, nextHandle, lists, trace, crudVars>>

\* RetrievalRequestSchema(query=question, knowledge_id=..., ...)
RetrievalRequest(r) ==
    [ query |-> frame[r].question,
      knowledge_id |-> frame[r].knowledge.id,
      search_type_id |-> frame[r].knowledge.search_type.id,
      top_k |-> frame[r].knowledge.top_k,
      threshold_score |-> frame[r].knowledge.score,
      dense_weight |-> DenseWeight,
      sparse_weight |-> SparseWeight ]

\* What EvaluationService.retrieve may return for a request: at most top_k
\* items, each with a text.
Retrievable(request) ==
    { [i \in DOMAIN texts |-> [text |-> texts[i]]] :
          texts \in SeqsUpTo(Corpus, request.top_k) }

\* contexts = EvaluationService.retrieve(RetrievalRequestSchema(...), db)
Retrieve(r) ==
    /\ frame[r].pc = "retrieve"
    /\ \E contexts \in Retrievable(RetrievalRequest(r)) :
           frame' = [frame EXCEPT ![r].pc = "render", ![r].contexts = contexts]
    /\ trace' = Did(r, "retrieve", RetrievalRequest(r))
    /\ UNCHANGED <<registry, nextHandle, lists, crudVars>>

\* context = "\n".join(item.get("text") for item in contexts)
\* content = prompt.format(context=context, question=question)
\* messages[-1]["content"] = content
Render(r) ==
    /\ frame[r].pc = "render"
    /\ LET context == NewlineJoin(frame[r].contexts)
           content == Format(frame[r].prompt, context, frame[r].question)
           l       == frame[r].messages
       IN  /\ trace' = Did(r, "render",
                           [template |-> frame[r].prompt, context |-> context,
                            question |-> frame[r].question])
           /\ IF FormatRaises(frame[r].prompt)
              THEN /\ frame' = [Raise(r, "KeyError", 500) EXCEPT
                                   ![r].context = context]
                   /\ lists' = lists
              ELSE /\ frame' = [frame EXCEPT ![r].pc = "lookup",
                                             ![r].context = context,
                                             ![r].content = content]
                   /\ lists' = [lists EXCEPT
                                  ![l] = SetLastContent(@, content)]
    /\ UNCHANGED <<registry, nextHandle, crudVars>>

\* loaded_pipeline = settings.LOADED_LLM.get(model_id, {})
\* if not loaded_pipeline: raise HTTPException(400, ...)
Lookup(r) ==
    /\ frame[r].pc = "lookup"
    /\ LET loaded_pipeline == DictGet(registry, frame[r].model_id, EmptyDict)
       IN  /\ trace' = Did(r, "lookup",
                           [model_id |-> frame[r].model_id,
                            found |-> loaded_pipeline])
           /\ IF ~ Truthy(loaded_pipeline)
              THEN frame' = Raise(r, "HTTPException", ModelNotLoadedStatus)
              ELSE frame' = [frame EXCEPT
                               ![r].pc = "generate",
                               ![r].loaded_pipeline = loaded_pipeline]
    /\ UNCHANGED <<registry, nextHandle, lists, crudVars>>

\* Faulty variant: the tokenizer is taken from a second registry lookup.
PipelineHandlesRereadRegistry(r) ==
    [ model |-> frame[r].loaded_pipeline.model,
      tokenizer |-> DictGet(registry, frame[r].model_id, EmptyDict).tokenizer ]

\* model = loaded_pipeline.get("model")
\* tokenizer = loaded_pipeline.get("tokenizer")
PipelineHandles(r) ==
    [ model |-> frame[r].loaded_pipeline.model,
      tokenizer |-> frame[r].loaded_pipeline.tokenizer ]

\* pipe = pipeline("text-generation", model=model, tokenizer=tokenizer)
\* result = pipe(messages, max_length=4048)
\* return {"message": result[0]["generated_text"][-1], "context": context}
\* The pipeline answers with the conversation and one more turn, or raises.
Generate(r) ==
    /\ frame[r].pc = "generate"
    /\ LET call == [step |-> "generate",
                    arg |-> [model |-> PipelineHandles(r).model,
                             tokenizer |-> PipelineHandles(r).tokenizer,
                             messages |-> lists[frame[r].messages],
                             max_length |-> MaxLength]]
       IN  \/ \E reply \in Replies :
                 LET result == [role |-> "assistant", content |-> reply]
                     response == [message |-> result,
                                  context |-> frame[r].context]
                 IN  /\ frame' = [frame EXCEPT ![r].pc = "done",
                                               ![r].result = result,
                                               ![r].status = 200,
                                               ![r].response = response]
                     /\ trace' = [trace EXCEPT ![r].calls =
                                     @ \o <<call, [step |-> "response",
                                                   arg |-> response]>>]
           \/ /\ frame' = Raise(r, "RuntimeError", 500)
              /\ trace' = [trace EXCEPT ![r].calls = Append(@, call)]
    /\ UNCHANGED <<registry, nextHandle, lists, crudVars>>

-----------------------------------------------------------------------------
(* The model loader, outside this router: it fills and empties LOADED_LLM. *)

\* A load puts a freshly loaded {model, tokenizer} pair under model_id.
Load(model_id) ==
    /\ nextHandle <= MaxLoads
    /\ registry' = [m \in DOMAIN registry \cup {model_id} |->
                       IF m = model_id
                       THEN [model |-> nextHandle, tokenizer |-> nextHandle]
                       ELSE registry[m]]
    /\ nextHandle' = nextHandle + 1
    /\ UNCHANGED <<lists, frame, trace, crudVars>>

\* An eviction removes the entry.
Evict(model_id) ==
    /\ model_id \in DOMAIN registry
    /\ registry' = [m \in DOMAIN registry \ {model_id} |-> registry[m]]
    /\ UNCHANGED <<nextHandle, lists, frame, trace, crudVars>>

-----------------------------------------------------------------------------
(* The services and the session the CRUD handlers call *)

\* A session sees the committed rows plus its own pending writes.
Session == [solutions |-> solutions, configs |-> configs]

\* SolutionService().get(db, solution_id): the joined read-model, i.e. the
\* solution row with the solution_config rows that name it as their owner.
ReadModel(db, solution_id) ==
    LET row == CHOOSE s \in db.solutions : s.id = solution_id
    IN  [ id |-> row.id, name |-> row.name, knowledge_id |-> row.knowledge_id,
          solution_config |-> {c \in db.configs : c.solution_id = solution_id} ]

HasSolution(db, solution_id) == \E s \in db.solutions : s.id = solution_id
HasConfig(db, config_id)     == \E c \in db.configs : c.id = config_id

\* SolutionService().create(db, obj_in): add the row, flush, return it.
InsertSolution(db, id, obj_in) ==
    [db EXCEPT !.solutions = @ \cup
        {[id |-> id, name |-> obj_in.name, knowledge_id |-> obj_in.knowledge_id]}]

\* SolutionConfigService().create(db, obj_in)
InsertConfig(db, id, obj_in) ==
    [db EXCEPT !.configs = @ \cup
        {[id |-> id, solution_id |-> obj_in.solution_id,
          model_id |-> obj_in.model_id]}]

\* SolutionService().update(db, db_obj, obj_in): set the fields of obj_in.
UpdateSolutionRow(db, solution_id, obj_in) ==
    [db EXCEPT !.solutions =
        { IF s.id = solution_id
          THEN [s EXCEPT !.name = obj_in.name,
                         !.knowledge_id = obj_in.knowledge_id]
          ELSE s : s \in @ }]

\* SolutionConfigService().update(db, db_obj, obj_in): set the fields of obj_in.
UpdateConfigRow(db, config_id, obj_in) ==
    [db EXCEPT !.configs =
        { IF c.id = config_id
          THEN [c EXCEPT !.solution_id = obj_in.solution_id,
                         !.model_id = obj_in.model_id]
          ELSE c : c \in @ }]

\* db.commit()
Commit(db) ==
    /\ solutions' = db.solutions
    /\ configs' = db.configs

\* The handler raised: the session is closed without a commit.
Rollback ==
    /\ solutions' = solutions
    /\ configs' = configs

\* The rows of a table in insertion order.
RECURSIVE InIdOrder(_)
InIdOrder(rows) ==
    IF rows = {} THEN <<>>
    ELSE LET first == CHOOSE r \in rows : \A q \in rows : r.id <= q.id
         IN  <<first>> \o InIdOrder(rows \ {first})

\* SolutionService().get_multi(db, skip, limit): OFFSET skip LIMIT limit.
GetMulti(db, skip, limit) ==
    LET all  == InIdOrder(db.solutions)
        last == IF skip + limit < Len(all) THEN skip + limit ELSE Len(all)
    IN  [i \in 1 .. (IF last > skip THEN last - skip ELSE 0) |->
            ReadModel(db, all[skip + i].id)]

NoResult == [id |-> 0, name |-> "", knowledge_id |-> 0, solution_config |-> {}]

SolutionRequests ==
    { [name |-> "a", knowledge_id |-> 1], [name |-> "b", knowledge_id |-> 2] }
ConfigRequests   == [model_id : ModelIds]

-----------------------------------------------------------------------------
(* The CRUD handlers *)

\* SolutionConfigBaseSchema(solution_id=solution_id, **request.model_dump())
ConfigSchema(solution_id, request) ==
    [solution_id |-> solution_id, model_id |-> request.model_id]

\* Faulty variant: db.commit() right after SolutionService().create.
create_solution_commits_early(solution, solution_config_in, failing) ==
    /\ nextSolutionId <= MaxRows + 1
    /\ LET request == [solution |-> solution,
                       solution_config |-> solution_config_in]
           solution_id == nextSolutionId
           db1 == InsertSolution(Session, solution_id, request.solution)
           solution_config == ConfigSchema(solution_id, request.solution_config)
           db2 == InsertConfig(db1, nextConfigId, solution_config)
           result == ReadModel(db2, solution_id)
       IN  IF failing = "SolutionService.create"
           THEN /\ Rollback
                /\ UNCHANGED <<nextSolutionId, nextConfigId>>
                /\ crud' = [op |-> "create_solution", request |-> request,
                            raised |-> failing, result |-> NoResult]
           ELSE IF failing = "SolutionConfigService.create"
           THEN /\ Commit(db1)
                /\ nextSolutionId' = nextSolutionId + 1
                /\ UNCHANGED nextConfigId
                /\ crud' = [op |-> "create_solution", request |-> request,
                            raised |-> failing, result |-> NoResult]
           ELSE /\ Commit(db2)
                /\ nextSolutionId' = nextSolutionId + 1
                /\ nextConfigId' = nextConfigId + 1
                /\ crud' = [op |-> "create_solution", request |-> request,
                            raised |-> "", result |-> result]
    /\ UNCHANGED genVars

\* POST /solutions with the body {solution, solution_config}.  failing names
\* the service call that raises, if any.
create_solution(solution, solution_config_in, failing) ==
    /\ nextSolutionId <= MaxRows + 1
    /\ LET request == [solution |-> solution,
                       solution_config |-> solution_config_in]
           solution_id == nextSolutionId
           db1 == InsertSolution(Session, solution_id, request.solution)
           solution_config == ConfigSchema(solution_id, request.solution_config)
           db2 == InsertConfig(db1, nextConfigId, solution_config)
           result == ReadModel(db2, solution_id)
       IN  IF failing # "none"
           THEN /\ Rollback
                /\ UNCHANGED <<nextSolutionId, nextConfigId>>
                /\ crud' = [op |-> "create_solution", request |-> request,
                            raised |-> failing, result |-> NoResult]
           ELSE /\ Commit(db2)
                /\ nextSolutionId' = nextSolutionId + 1
                /\ nextConfigId' = nextConfigId + 1
                /\ crud' = [op |-> "create_solution", request |-> request,
                            raised |-> "", result |-> result]
    /\ UNCHANGED genVars

\* PUT /solutions/{solution_id}
update_solution(solution_id, request) ==
    /\ IF ~ HasSolution(Session, solution_id)
       THEN /\ Rollback
            /\ crud' = [op |-> "update_solution", solution_id |-> solution_id,
                        request |-> request, raised |-> "NotFound",
                        result |-> NoResult]
       ELSE LET db1 == UpdateSolutionRow(Session, solution_id, request)
                result == ReadModel(db1, solution_id)
            IN  /\ Commit(db1)
                /\ crud' = [op |-> "update_solution", solution_id |-> solution_id,
                            request |-> request, raised |-> "", result |-> result]
    /\ UNCHANGED <<nextSolutionId, nextConfigId, genVars>>

\* PUT /solutions/{solution_id}/configs/{solution_config_id}
update_solution_config(solution_id, solution_config_id, request) ==
    /\ LET solution_config == ConfigSchema(solution_id, request)
           db1 == UpdateConfigRow(Session, solution_config_id, solution_config)
           args == [solution_id |-> solution_id,
                    solution_config_id |-> solution_config_id]
       IN  IF ~ HasConfig(Session, solution_config_id)
              \/ ~ HasSolution(db1, solution_id)
           THEN /\ Rollback
                /\ crud' = [op |-> "update_solution_config", args |-> args,
                            request |-> request, raised |-> "NotFound",
                            result |-> NoResult]
           ELSE /\ Commit(db1)
                /\ crud' = [op |-> "update_solution_config", args |-> args,
                            request |-> request, raised |-> "",
                            result |-> ReadModel(db1, solution_id)]
    /\ UNCHANGED <<nextSolutionId, nextConfigId, genVars>>

\* GET /solutions/{solution_id}
read_solution(solution_id) ==
    /\ crud' = IF HasSolution(Session, solution_id)
               THEN [op |-> "read_solution", solution_id |-> solution_id,
                     raised |-> "", result |-> ReadModel(Session, solution_id)]
               ELSE [op |-> "read_solution", solution_id |-> solution_id,
                     raised |-> "NotFound", result |-> NoResult]
    /\ UNCHANGED <<solutions, configs, nextSolutionId, nextConfigId, genVars>>

\* GET /solutions?skip=&limit=
read_solutions(skip, limit) ==
    /\ crud' = [op |-> "read_solutions", skip |-> skip, limit |-> limit,
                raised |-> "", result |-> GetMulti(Session, skip, limit)]
    /\ UNCHANGED <<solutions, configs, nextSolutionId, nextConfigId, genVars>>

-----------------------------------------------------------------------------
(* Specification *)

InitialSolutions == { [id |-> 1, name |-> "a", knowledge_id |-> 1] }
InitialConfigs   == { [id |-> 11, solution_id |-> 1, model_id |-> DefaultModelId] }

Init ==
    /\ solutions = InitialSolutions
    /\ configs = InitialConfigs
    /\ nextSolutionId = 2
    /\ nextConfigId = 12
    /\ crud = [op |-> "none"]
    /\ registry = << >>
    /\ nextHandle = 1
    /\ lists = InitialLists
    /\ frame = [r \in Requests |-> IdleFrame]
    /\ trace = [r \in Requests |-> IdleTrace]

Next ==
    \/ \E r \in Requests, solution_id \in {1, 2}, prompt_id \in PromptIds,
          model_id \in ModelIds, l \in ListIds :
           Call(r, solution_id, prompt_id, model_id, l)
    \/ \E r \in Requests : GetSolution(r)
    \/ \E r \in Requests : GetPrompt(r)
    \/ \E r \in Requests : GetQuestion(r)
    \/ \E r \in Requests : Retrieve(r)
    \/ \E r \in Requests : Render(r)
    \/ \E r \in Requests : Lookup(r)
    \/ \E r \in Requests : Generate(r)
    \/ \E model_id \in Loadable : Load(model_id)
    \/ \E model_id \in Loadable : Evict(model_id)

Spec == Init /\ [][Next]_vars

\* The CRUD handlers, each a transaction of its own.
SolutionIds == 1 .. MaxRows + 2
ConfigIds   == 11 .. MaxRows + 12

NextCrud ==
    \/ \E solution \in SolutionRequests, solution_config \in ConfigRequests,
          failing \in {"none", "SolutionService.create",
                       "SolutionConfigService.create"} :
           create_solution(solution, solution_config, failing)
    \/ \E solution_id \in SolutionIds, request \in SolutionRequests :
           update_solution(solution_id, request)
    \/ \E solution_id \in SolutionIds, solution_config_id \in ConfigIds,
          request \in ConfigRequests :
           update_solution_config(solution_id, solution_config_id, request)
    \/ \E solution_id \in SolutionIds : read_solution(solution_id)
    \/ \E skip \in {DefaultSkip, 1}, limit \in {1, DefaultLimit} :
           read_solutions(skip, limit)

SpecCrud == Init /\ [][NextCrud]_vars

-----------------------------------------------------------------------------
(* Properties of generate_text *)

Range(s) == {s[i] : i \in DOMAIN s}

IsPrefix(s, t) == Len(s) <= Len(t) /\ \A i \in DOMAIN s : s[i] = t[i]

\* The calls of one kind a request made, and the kinds of all of them in order.
Calls(r, step) == SelectSeq(trace[r].calls, LAMBDA c : c.step = step)
Steps(r) == [i \in DOMAIN trace[r].calls |-> trace[r].calls[i].step]

Made(r, step) == Calls(r, step) # <<>>
Done(r) == frame[r].pc = "done"

\* The texts the gateway returned to a request.
Texts(r) == [i \in DOMAIN frame[r].contexts |-> frame[r].contexts[i].text]

\* Where the i-th text starts in a newline-join of texts: after the texts
\* before it and one newline for each.
RECURSIVE Offset(_, _)
Offset(texts, i) ==
    IF i = 1 THEN 0 ELSE Offset(texts, i - 1) + Len(texts[i - 1]) + 1

\* ctx is texts[1], "\n", texts[2], "\n", ..., texts[n], position by position.
IsNewlineJoinOf(ctx, texts) ==
    LET n == Len(texts)
    IN  IF n = 0 THEN ctx = <<>>
        ELSE /\ Len(ctx) = Offset(texts, n) + Len(texts[n])
             /\ \A i \in 1 .. n :
                    /\ \A k \in 1 .. Len(texts[i]) :
                           ctx[Offset(texts, i) + k] = texts[i][k]
                    /\ i < n => ctx[Offset(texts, i) + Len(texts[i]) + 1] = NL

\* C1: the context of every response is the texts the retrieval gateway
\* returned, in the gateway's order, joined by newlines: the empty string when
\* the gateway returned nothing; and a request that found its model loaded goes
\* on to the generation call whatever the gateway returned.
C1_ContextIsNewlineJoin ==
    \A r \in Requests :
        /\ frame[r].status = 200 =>
               IsNewlineJoinOf(frame[r].response.context, Texts(r))
        /\ (Done(r) /\ Made(r, "lookup") /\ frame[r].raised # "HTTPException")
               => Made(r, "generate")

C1_Witness ==
    \E r, q \in Requests :
        /\ frame[r].status = 200 /\ frame[q].status = 200
        /\ Texts(r) = << <<"K", NL>>, <<"S">> >>
        /\ frame[r].response.context = <<"K", NL, NL, "S">>
        /\ Texts(q) = <<>> /\ frame[q].response.context = <<>>

\* C2: a request that looks its model_id up while the registry has no entry
\* for it ends there with HTTPException(400); a request that ended so has made
\* no generation call, has no response, and does nothing more; a generation
\* call is only ever made after a lookup that found a loaded model.
C2_ModelNotLoadedNoGeneration ==
    /\ [][\A r \in Requests :
            (/\ frame[r].pc = "lookup"
             /\ frame'[r] # frame[r]
             /\ frame[r].model_id \notin DOMAIN registry)
            => /\ frame'[r].pc = "done"
               /\ frame'[r].raised = "HTTPException"
               /\ frame'[r].status = ModelNotLoadedStatus]_vars
    /\ [](\A r \in Requests :
            frame[r].raised = "HTTPException"
            => /\ Done(r)
               /\ frame[r].status = 400
               /\ ~ Made(r, "generate")
               /\ ~ Made(r, "response")
               /\ frame[r].response = NoResponse)
    /\ [](\A r \in Requests :
            Made(r, "generate")
            => /\ Made(r, "lookup")
               /\ Calls(r, "lookup")[1].arg.found.model # 0)
    /\ [][\A r \in Requests :
            frame[r].raised = "HTTPException"
            => frame'[r] = frame[r] /\ trace'[r] = trace[r]]_vars

C2_Witness ==
    \E r \in Requests :
        /\ frame[r].raised = "HTTPException" /\ frame[r].status = 400
        /\ frame[r].model_id = DefaultModelId + 1
        /\ DefaultModelId \in DOMAIN registry
        /\ ~ Made(r, "generate")

\* C3 (as claimed): a request with an empty messages list, whose solution and
\* prompt exist, fails with InvalidInput before any retrieval or generation call.
C3_EmptyMessagesInvalidInput ==
    \A r \in Requests :
        (/\ Done(r)
         /\ trace[r].given = <<>>
         /\ Made(r, "solution") /\ Made(r, "prompt")
         /\ frame[r].raised # "NotFound")
        => /\ frame[r].raised = "InvalidInput"
           /\ ~ Made(r, "retrieve")
           /\ ~ Made(r, "generate")

\* C4: on success the list given to the pipeline is the caller's list with the
\* last content replaced by the rendered template and nothing else changed:
\* same length, same earlier messages, same last role; the list object itself
\* holds that content until another request renders into it.  With prompt 1,
\* texts "S" and "K\n" and the question "W" the content is "CS\nK\n\nQW".
C4_LastMessageRendered ==
    \A r \in Requests :
        frame[r].status = 200 =>
            LET given == trace[r].given
                sent  == Calls(r, "generate")[1].arg.messages
                n     == Len(given)
            IN  /\ Len(sent) = n
                /\ \A i \in 1 .. n - 1 : sent[i] = given[i]
                /\ sent[n].role = given[n].role
                /\ sent[n].content =
                       Format(frame[r].prompt, frame[r].response.context,
                              given[n].content)
                /\ (\A q \in Requests \ {r} :
                        frame[q].messages = frame[r].messages => ~ Made(q, "render"))
                   => lists[frame[r].messages] = sent
                /\ (/\ frame[r].prompt_id = DefaultPromptId
                    /\ Texts(r) = << <<"S">>, <<"K", NL>> >>
                    /\ given[n].content = <<"W">>)
                   => sent[n].content = <<"C", "S", NL, "K", NL, NL, "Q", "W">>

C4_Witness ==
    \E r \in Requests :
        /\ frame[r].status = 200
        /\ trace[r].given = DefaultMessages
        /\ Texts(r) = << <<"S">>, <<"K", NL>> >>
        /\ lists[frame[r].messages] =
               << [role |-> "assistant", content |-> <<"Y">>],
                  [role |-> "user",
                   content |-> <<"C", "S", NL, "K", NL, NL, "Q", "W">>] >>

\* C7 (as claimed): a request whose template names a field other than context
\* and question, and which got as far as rendering it, fails with InvalidInput
\* and makes no generation call.
C7_BadPlaceholderInvalidInput ==
    \A r \in Requests :
        (Done(r) /\ Made(r, "render") /\ "{name}" \in Range(frame[r].prompt))
        => /\ frame[r].raised = "InvalidInput"
           /\ ~ Made(r, "generate")

\* The order of a request's calls.
Canonical ==
    <<"solution", "prompt", "retrieve", "render", "lookup", "generate", "response">>

\* C8: the calls a request makes are a prefix of: resolve solution, resolve
\* prompt, retrieve, render, registry lookup, generate, respond (so each is made
\* at most once and in this order); the retrieval query is the last message's
\* original content; a request that raised is over, has no response and does
\* nothing more; a response is returned only after the generation call and
\* with no exception raised.
C8_StepsInOrder ==
    /\ [](\A r \in Requests :
            /\ IsPrefix(Steps(r), Canonical)
            /\ Made(r, "retrieve") =>
                   Calls(r, "retrieve")[1].arg.query = Last(trace[r].given).content
            /\ frame[r].raised # "" =>
                   /\ Done(r)
                   /\ ~ Made(r, "response")
                   /\ frame[r].response = NoResponse
                   /\ frame[r].status # 200
            /\ Made(r, "response") <=> frame[r].status = 200
            /\ Made(r, "response") =>
                   /\ Made(r, "generate")
                   /\ frame[r].raised = ""
                   /\ Calls(r, "response")[1].arg = frame[r].response)
    /\ [][\A r \in Requests :
            Done(r) => frame'[r] = frame[r] /\ trace'[r] = trace[r]]_vars

C8_Witness ==
    \E r, q \in Requests :
        /\ Steps(r) = Canonical /\ frame[r].status = 200
        /\ Done(q) /\ frame[q].raised = "KeyError"
        /\ Steps(q) = <<"solution", "prompt", "retrieve", "render">>

\* C9: no step of a request changes the registry; a request looks its model up
\* at most once, and the model and the tokenizer it hands to the pipeline are
\* the pair that lookup found, whatever was loaded or evicted since.
C9_RegistryReadOnce ==
    /\ [][(\E r \in Requests : frame'[r] # frame[r])
            => registry' = registry /\ nextHandle' = nextHandle]_vars
    /\ [](\A r \in Requests :
            /\ Len(Calls(r, "lookup")) <= 1
            /\ Made(r, "generate") =>
                   LET found == Calls(r, "lookup")[1].arg.found
                       used  == Calls(r, "generate")[1].arg
                   IN  /\ used.model = found.model
                       /\ used.tokenizer = found.tokenizer
                       /\ used.model = used.tokenizer
                       /\ used.model # 0)

C9_Witness ==
    \E r, q \in Requests :
        /\ r # q
        /\ Made(r, "generate") /\ Made(q, "generate")
        /\ Calls(r, "generate")[1].arg.model = 1
        /\ Calls(q, "generate")[1].arg.model = 2
        /\ DOMAIN registry = {}

\* The request made on the same list object next after r, if any.
NextOnList(r, q) ==
    /\ r < q
    /\ frame[q].pc # "idle"
    /\ frame[q].messages = frame[r].messages
    /\ \A p \in Requests : (r < p /\ p < q) => frame[p].messages # frame[r].messages

\* C10: at the step where a request fails with HTTPException(400) it has made
\* exactly one retrieval call and the last message of the caller's list holds
\* the rendered prompt; the next request made on that list object takes that
\* rendered prompt as its question and as its retrieval query.
C10_FailedRequestLeavesRenderedPrompt ==
    /\ [][\A r \in Requests :
            (frame[r].raised = "" /\ frame'[r].raised = "HTTPException")
            => /\ Len(SelectSeq(trace'[r].calls,
                                LAMBDA c : c.step = "retrieve")) = 1
               /\ Last(lists'[frame[r].messages]).content =
                      Format(frame[r].prompt, NewlineJoin(frame[r].contexts),
                             Last(trace[r].given).content)
               /\ Last(lists'[frame[r].messages]).content = frame[r].content]_vars
    /\ [](\A r, q \in Requests :
            (frame[r].raised = "HTTPException" /\ NextOnList(r, q))
            => /\ Len(trace[q].given) = Len(trace[r].given)
               /\ Last(trace[q].given).content = frame[r].content
               /\ Made(q, "retrieve") =>
                      /\ frame[q].question = frame[r].content
                      /\ Calls(q, "retrieve")[1].arg.query = frame[r].content)

C10_Witness ==
    \E r, q \in Requests :
        /\ frame[r].raised = "HTTPException" /\ NextOnList(r, q)
        /\ Made(q, "retrieve")
        /\ Calls(r, "retrieve")[1].arg.query = <<"W">>
        /\ Calls(q, "retrieve")[1].arg.query = <<"C", "S", NL, "Q", "W">>

-----------------------------------------------------------------------------
(* Properties of the CRUD handlers *)

\* The ids of the solution_config rows a solution owns.
Owned(cfgs, solution_id) == {c.id : c \in {x \in cfgs : x.solution_id = solution_id}}

\* C5: a create_solution step either commits nothing (a service call raised)
\* or commits exactly one new solution row and exactly one new solution_config
\* row, the config naming the new solution as its owner, both with the
\* submitted fields; the read-model returned is that solution with that one
\* config.
C5_CreateIsAtomic ==
    [][(crud'.op = "create_solution" /\ vars' # vars) =>
          IF crud'.raised # ""
          THEN solutions' = solutions /\ configs' = configs
          ELSE \E s \in solutions' \ solutions, c \in configs' \ configs :
                  /\ solutions' = solutions \cup {s}
                  /\ configs' = configs \cup {c}
                  /\ \A old \in solutions : old.id # s.id
                  /\ \A old \in configs : old.id # c.id
                  /\ c.solution_id = s.id
                  /\ s.name = crud'.request.solution.name
                  /\ s.knowledge_id = crud'.request.solution.knowledge_id
                  /\ c.model_id = crud'.request.solution_config.model_id
                  /\ crud'.result =
                         [id |-> s.id, name |-> s.name,
                          knowledge_id |-> s.knowledge_id,
                          solution_config |-> {c}]]_vars

C5_Witness ==
    /\ crud.op = "create_solution"
    /\ crud.raised = ""
    /\ crud.request.solution_config.model_id = DefaultModelId + 1
    /\ crud.result.id = 2
    /\ crud.result.solution_config =
           {[id |-> 12, solution_id |-> 2, model_id |-> DefaultModelId + 1]}
    /\ Cardinality(solutions) = 2 /\ Cardinality(configs) = 2

\* C6 (as claimed): an update_solution_config step leaves every solution row
\* as it was and leaves every solution owning the configs it owned before.
C6_ConfigUpdateKeepsOwnership ==
    [][(crud'.op = "update_solution_config" /\ vars' # vars) =>
          /\ solutions' = solutions
          /\ \A s \in solutions :
                 Owned(configs', s.id) = Owned(configs, s.id)]_vars

====
